---- MODULE Spec2Model ----
(***************************************************************************)
(* A model of the TypeScript design-pattern examples: the caching proxy    *)
(* (FileDownloaderProxy) and the composite tree (SimpleOrgan /             *)
(* CompoundOrgan).  Objects are modelled with the semantics the language   *)
(* gives them: `cachedFiles = {}` is an ordinary object whose prototype is *)
(* Object.prototype, so a key is looked up among its own properties and    *)
(* then among the inherited ones.                                          *)
(***************************************************************************)
EXTENDS Integers, Sequences, FiniteSets, TLC

VARIABLES
    cachedFiles,      \* FileDownloaderProxy.cachedFiles, one object per proxy instance
    console,          \* what console.log has printed, in order (with the instance that printed)
    calls,            \* history of FileDownloaderProxy.download calls and their outcomes
    downloaderCalls,  \* history of FileDownloader.download invocations
    clientPc,         \* how many statements of client() have run
    children,         \* CompoundOrgan.children, one array per container
    name,             \* Organ.name of every node
    result,           \* the last call on a node of the tree and what it gave
    previous,         \* the call on a node before the last one, where it is tracked
    configInstance,   \* Config.instance: 0 for null, else the place of the object in configHeap
    configHeap,       \* the `items` object of every Config constructed, in order
    configLoads,      \* how many times loadAllConfigFiles has run
    configRefs,       \* what the client's variables config and config2 hold (0: nothing yet)
    configWritten,    \* per key, the value of the last set() through any reference
    configResult,     \* the last call on Config and what it gave
    books,            \* every Book constructed, in order
    fetches,          \* how many times fetchContentFromDb has run
    bookResult        \* the last construction or clone of a Book

proxyVars == <<cachedFiles, console, calls, downloaderCalls, clientPc>>

treeVars == <<children, name, result>>

editVars == <<previous>>

configVars == <<configInstance, configHeap, configLoads, configRefs,
                configWritten, configResult>>

bookVars == <<books, fetches, bookResult>>

vars == <<proxyVars, treeVars, editVars, configVars, bookVars>>

\* what the proxy leaves alone, and what the calls on a tree leave alone
outsideProxy == <<treeVars, editVars, configVars, bookVars>>

outsideTree == <<proxyVars, editVars, configVars, bookVars>>

(***************************************************************************)
(* Bounds                                                                  *)
(***************************************************************************)
\* number of download calls made by callers other than client()
MaxCalls == 3

\* longest children array a container is grown to
MaxChildren == 2

\* most leaf revenues one getRevenue() call on a container draws
MaxDraws == 3

\* most children, over all containers, while add and remove are followed
\* call by call
MaxEdit == 3

\* most Book objects made
MaxBooks == 3

\* Math.random() outcomes tried on a leaf: both ends of each of
\* 2^RandomBits equal slices of [0, 1)
RandomBits == 6

(***************************************************************************)
(* JavaScript values and objects                                           *)
(***************************************************************************)
\* the value of a function that returns nothing, and of a missing property
Undefined == "undefined"

\* Object.prototype.hasOwnProperty, the builtin every object literal inherits
HasOwnPropertyFn == "function hasOwnProperty"

\* Object.prototype itself, what the inherited __proto__ getter returns
ObjectPrototype == "Object.prototype"

\* the key the client downloads
PathToFile == "http://path-to-file.jpg"

\* the paths callers pass: the client's, another file, and two names that
\* Object.prototype already defines
Keys == {PathToFile, "b.png", "__proto__", "hasOwnProperty"}

\* the proxy instance created for client(), and two others
ClientProxy == "client"

Proxies == {ClientProxy, "p1", "p2"}

\* `{}`: an object with no own property
EmptyObject == <<>>

\* obj.hasOwnProperty(k) as the builtin computes it
HasOwn(obj, k) == k \in DOMAIN obj

\* obj[k]: own property first, then Object.prototype
ObjGet(obj, k) ==
    IF k \in DOMAIN obj THEN obj[k]
    ELSE IF k = "hasOwnProperty" THEN HasOwnPropertyFn
    ELSE IF k = "__proto__" THEN ObjectPrototype
    ELSE Undefined

\* a store that is lost: obj[k] = v leaving obj as it was
ObjSet_Dropped(obj, k, v) == obj

\* obj[k] = v for the values download stores (never an object or null):
\* `__proto__` is an accessor of Object.prototype whose setter ignores a
\* value that is neither an object nor null; every other key becomes an own
\* data property
ObjSet(obj, k, v) ==
    IF k = "__proto__" /\ k \notin DOMAIN obj
    THEN obj
    ELSE [x \in DOMAIN obj \cup {k} |-> IF x = k THEN v ELSE obj[x]]

(***************************************************************************)
(* FileDownloader and FileDownloaderProxy                                  *)
(***************************************************************************)
\* FileDownloader.download(path): logs one line, returns nothing
FileDownloaderDownload(path) ==
    [log |-> <<"Downloading ", path, "...">>, result |-> Undefined]

\* FileDownloaderProxy.download(path) run on the object `obj`: the outcome,
\* the returned value, the lines logged, the paths handed to the real
\* downloader, and the object afterwards
ProxyDownload(obj, path) ==
    IF ObjGet(obj, "hasOwnProperty") # HasOwnPropertyFn
    THEN \* calling a property that is not a function
         [outcome |-> "TypeError", value |-> Undefined, log |-> <<>>,
          invoked |-> <<>>, cache |-> obj]
    ELSE IF HasOwn(obj, path)
    THEN [outcome |-> "return", value |-> ObjGet(obj, path),
          log |-> << <<"Read ", path, " from cache">> >>,
          invoked |-> <<>>, cache |-> obj]
    ELSE LET d == FileDownloaderDownload(path)
         IN  [outcome |-> "return", value |-> Undefined,
              log |-> <<d.log>>,
              invoked |-> <<path>>, cache |-> ObjSet(obj, path, d.result)]

\* one call proxy.download(path) on instance p, with its effects
DoDownload(p, path) ==
    LET r == ProxyDownload(cachedFiles[p], path)
    IN  /\ cachedFiles' = [cachedFiles EXCEPT ![p] = r.cache]
        /\ console' = console \o [i \in 1..Len(r.log) |-> [by |-> p, line |-> r.log[i]]]
        /\ calls' = Append(calls,
                [proxy |-> p, path |-> path, outcome |-> r.outcome,
                 value |-> r.value, invoked |-> r.invoked, log |-> r.log,
                 pre |-> cachedFiles[p], post |-> r.cache])
        /\ downloaderCalls' = downloaderCalls \o
                [i \in 1..Len(r.invoked) |-> [proxy |-> p, path |-> r.invoked[i]]]

\* the calls made so far by callers other than client()
OtherCalls == Len(SelectSeq(calls, LAMBDA c : c.proxy # ClientProxy))

\* some caller calls download(path) on one of its proxies
Download(p, path) ==
    /\ p # ClientProxy
    /\ OtherCalls < MaxCalls
    /\ DoDownload(p, path)
    /\ UNCHANGED clientPc
    /\ UNCHANGED outsideProxy

\* the next of the five statements of client(new FileDownloaderProxy())
ClientStep ==
    /\ clientPc < 5
    /\ DoDownload(ClientProxy, PathToFile)
    /\ clientPc' = clientPc + 1
    /\ UNCHANGED outsideProxy

InitProxy ==
    /\ cachedFiles = [p \in Proxies |-> EmptyObject]
    /\ console = <<>>
    /\ calls = <<>>
    /\ downloaderCalls = <<>>
    /\ clientPc = 0

NextProxy ==
    \/ \E p \in Proxies, path \in Keys : Download(p, path)
    \/ ClientStep

(***************************************************************************)
(* Numbers.  Math.random() gives a double r in [0, 1); such an r is        *)
(* m / 2^53 for an integer 0 <= m < 2^53.  Integers of that size are kept  *)
(* as little-endian sequences of 16-bit limbs, and r * 10000 is rounded to *)
(* a double (53 significant bits, ties to even) as the multiplication of   *)
(* the language does.                                                      *)
(***************************************************************************)
LimbBase == 2 ^ 16

\* bits of a double's significand
SignificandBits == 53

RECURSIVE StripZeros(_)
\* the same integer without leading zero limbs
StripZeros(x) ==
    IF x = <<>> THEN <<>>
    ELSE IF x[Len(x)] = 0 THEN StripZeros(SubSeq(x, 1, Len(x) - 1))
    ELSE x

RECURSIVE MulAdd(_, _, _)
\* x * k + carry, for 0 <= k, carry < 2^15
MulAdd(x, k, carry) ==
    IF x = <<>> THEN (IF carry = 0 THEN <<>> ELSE <<carry>>)
    ELSE LET t == Head(x) * k + carry
         IN  <<t % LimbBase>> \o MulAdd(Tail(x), k, t \div LimbBase)

RECURSIVE BigAdd(_, _, _)
\* x + y + carry
BigAdd(x, y, carry) ==
    IF x = <<>> /\ y = <<>> THEN (IF carry = 0 THEN <<>> ELSE <<carry>>)
    ELSE LET a == IF x = <<>> THEN 0 ELSE Head(x)
             b == IF y = <<>> THEN 0 ELSE Head(y)
             t == a + b + carry
         IN  <<t % LimbBase>> \o
             BigAdd(IF x = <<>> THEN <<>> ELSE Tail(x),
                    IF y = <<>> THEN <<>> ELSE Tail(y), t \div LimbBase)

RECURSIVE ShiftLeft(_, _)
\* x * 2^n
ShiftLeft(x, n) ==
    IF n = 0 THEN StripZeros(x)
    ELSE IF n >= 16 THEN ShiftLeft(<<0>> \o x, n - 16)
    ELSE StripZeros(MulAdd(x, 2 ^ n, 0))

RECURSIVE ShiftRight(_, _)
\* floor(x / 2^n)
ShiftRight(x, n) ==
    IF x = <<>> \/ n = 0 THEN x
    ELSE IF n >= 16 THEN ShiftRight(Tail(x), n - 16)
    ELSE StripZeros([i \in 1..Len(x) |->
            (x[i] \div 2 ^ n)
            + (IF i < Len(x) THEN (x[i + 1] % 2 ^ n) * 2 ^ (16 - n) ELSE 0)])

RECURSIVE Ones(_)
\* 2^n - 1
Ones(n) ==
    IF n = 0 THEN <<>>
    ELSE IF n >= 16 THEN <<LimbBase - 1>> \o Ones(n - 16)
    ELSE <<2 ^ n - 1>>

RECURSIVE SmallBitLen(_)
\* number of bits of a limb
SmallBitLen(a) == IF a = 0 THEN 0 ELSE 1 + SmallBitLen(a \div 2)

\* number of bits of x (x without leading zero limbs)
BitLen(x) ==
    IF x = <<>> THEN 0 ELSE (Len(x) - 1) * 16 + SmallBitLen(x[Len(x)])

\* the value of x when it fits a TLC integer
RECURSIVE ToInt(_)
ToInt(x) == IF x = <<>> THEN 0 ELSE Head(x) + LimbBase * ToInt(Tail(x))

\* x as limbs, for 0 <= x < 2^31
FromInt(x) == StripZeros(<<x % LimbBase, x \div LimbBase>>)

\* bit n of x (bit 0 the lowest)
BitAt(x, n) ==
    LET y == ShiftRight(x, n) IN IF y = <<>> THEN 0 ELSE Head(y) % 2

\* x mod 2^n is zero
LowBitsZero(x, n) == ShiftLeft(ShiftRight(x, n), n) = StripZeros(x)

\* the integer q rounded to SignificandBits significant bits, ties to even:
\* the double nearest to the real q / 2^53, as a numerator over 2^53
RoundToDouble(q) ==
    LET x == StripZeros(q)
        s == BitLen(x) - SignificandBits
    IN  IF s <= 0 THEN x
        ELSE LET down   == ShiftRight(x, s)
                 half   == BitAt(x, s - 1) = 1
                 sticky == ~LowBitsZero(x, s - 1)
                 odd    == BitAt(x, s) = 1
                 up     == half /\ (sticky \/ odd)
             IN  ShiftLeft(IF up THEN BigAdd(down, <<1>>, 0) ELSE down, s)

\* r * k in double arithmetic, for the double r = m / 2^53 and an integer
\* 0 <= k < 2^15, as a numerator over 2^53
DoubleTimes(m, k) == RoundToDouble(MulAdd(m, k, 0))

\* Math.floor(x) for the double x = q / 2^53 >= 0, as an integer
MathFloor(q) == ToInt(ShiftRight(q, SignificandBits))

\* the doubles Math.random() is tried with on a single leaf: the lowest
\* and the highest double of each slice [a / 2^RandomBits, (a + 1) / 2^RandomBits)
RandomDoubles ==
    UNION {{StripZeros(ShiftLeft(FromInt(a), SignificandBits - RandomBits)),
            BigAdd(ShiftLeft(FromInt(a), SignificandBits - RandomBits),
                   Ones(SignificandBits - RandomBits), 0)}
           : a \in 0..(2 ^ RandomBits - 1)}

\* the doubles 0.4 and 0.5
Double04 == <<52429, 52428, 52428, 12>>

Double05 == ShiftLeft(<<1>>, SignificandBits - 1)

\* the Math.random() outcomes tried inside a container's getRevenue(): they
\* make a leaf return 5000 and 6000
RandomSamples == {Double04, Double05}

(***************************************************************************)
(* Composite: arrays                                                       *)
(***************************************************************************)
Min(a, b) == IF a < b THEN a ELSE b

Max(a, b) == IF a > b THEN a ELSE b

\* the elements of an array
Range(arr) == {arr[i] : i \in DOMAIN arr}

\* Array.prototype.push
Push(arr, x) == Append(arr, x)

\* Array.prototype.lastIndexOf: the 0-based index of the last element that
\* is x, or -1
IndexOf_Last(arr, x) ==
    IF \E i \in DOMAIN arr : arr[i] = x
    THEN (CHOOSE i \in DOMAIN arr :
             arr[i] = x /\ \A j \in (i + 1)..Len(arr) : arr[j] # x) - 1
    ELSE -1

\* Array.prototype.indexOf: the 0-based index of the first element that is
\* x, or -1
IndexOf(arr, x) ==
    IF \E i \in DOMAIN arr : arr[i] = x
    THEN (CHOOSE i \in DOMAIN arr :
             arr[i] = x /\ \A j \in 1..(i - 1) : arr[j] # x) - 1
    ELSE -1

\* Array.prototype.splice(start), the count left out: everything from start
\* on is deleted
Splice_OmitsCount(arr, start, deleteCount) ==
    LET len  == Len(arr)
        from == IF start < 0 THEN (IF len + start > 0 THEN len + start ELSE 0)
                ELSE (IF start < len THEN start ELSE len)
    IN  SubSeq(arr, 1, from)

\* Array.prototype.splice(start, deleteCount): the array afterwards.  A
\* negative start counts from the end of the array.
Splice(arr, start, deleteCount) ==
    LET len   == Len(arr)
        from  == IF start < 0 THEN Max(len + start, 0) ELSE Min(start, len)
        count == Min(Max(deleteCount, 0), len - from)
    IN  SubSeq(arr, 1, from) \o SubSeq(arr, from + count + 1, len)

(***************************************************************************)
(* Composite: SimpleOrgan and CompoundOrgan                                *)
(***************************************************************************)
\* the objects: two SimpleOrgan and two CompoundOrgan instances
Leaves == {"ceo", "cto"}

Compounds == {"officers", "main"}

Nodes == Leaves \cup Compounds

\* the names the constructors are given (lines 118-124)
NameOf ==
    [n \in Nodes |->
        CASE n = "ceo" -> "John as CEO"
          [] n = "cto" -> "John as CTO"
          [] n = "officers" -> "Officers"
          [] n = "main" -> "Main"]

RECURSIVE Closure(_, _)
\* the nodes reachable from the nodes S through children arrays
Closure(ch, S) ==
    LET T == S \cup UNION {Range(ch[c]) : c \in S \cap Compounds}
    IN  IF T = S THEN S ELSE Closure(ch, T)

\* the nodes below n
Descendants(ch, n) == IF n \in Compounds THEN Closure(ch, Range(ch[n])) ELSE {}

\* a loop that calls the method on `this` instead of on the child: it never
\* ends as soon as some container at or below n has a child
Diverges_CallsItself(ch, n) ==
    \E c \in ({n} \cup Descendants(ch, n)) \cap Compounds : ch[c] # <<>>

\* a recursion that starts at n never ends: some container at or below n
\* is below itself
Diverges(ch, n) ==
    \E c \in ({n} \cup Descendants(ch, n)) \cap Compounds : c \in Descendants(ch, c)

\* a leaf that prints its name on a line of its own
SimpleOrganGetInformation_TwoLines(nm) == << <<"- My name is ">>, <<nm>> >>

\* SimpleOrgan.getInformation: one line (the string ends with "\n")
SimpleOrganGetInformation(nm) == << <<"- My name is ", nm>> >>

RECURSIVE GetInformation(_, _, _)
RECURSIVE ForEachInformation(_, _, _, _)
\* CompoundOrgan.getInformation / SimpleOrgan.getInformation on node n: the
\* returned string as the sequence of its "\n"-terminated lines
GetInformation(ch, nm, n) ==
    IF n \in Leaves THEN SimpleOrganGetInformation(nm[n])
    ELSE ForEachInformation(ch, nm, ch[n],
            << <<"- This is ", nm[n], " organ.",
                 " It contains ", Len(ch[n]), " members ">> >>)

RECURSIVE ForEachInformation_Prepends(_, _, _, _)
\* a loop that puts each child's text in front of the output so far
ForEachInformation_Prepends(ch, nm, kids, output) ==
    IF kids = <<>> THEN output
    ELSE ForEachInformation_Prepends(ch, nm, Tail(kids),
            GetInformation(ch, nm, Head(kids)) \o output)

\* this.children.forEach(organ => output += organ.getInformation())
ForEachInformation(ch, nm, kids, output) ==
    IF kids = <<>> THEN output
    ELSE ForEachInformation(ch, nm, Tail(kids),
            output \o GetInformation(ch, nm, Head(kids)))

\* a leaf that rounds up instead of down
SimpleOrganGetRevenue_Ceil(r) ==
    LET x == DoubleTimes(r, 10000)
    IN  MathFloor(x) + (IF LowBitsZero(x, SignificandBits) THEN 0 ELSE 1) + 1000

\* SimpleOrgan.getRevenue for the Math.random() outcome r
SimpleOrganGetRevenue(r) == MathFloor(DoubleTimes(r, 10000)) + 1000

\* SimpleOrgan.getRevenue for each Math.random() outcome that is tried
LeafRevenue == [r \in RandomSamples \cup RandomDoubles |-> SimpleOrganGetRevenue(r)]

RECURSIVE GetRevenue(_, _, _, _)
RECURSIVE ForEachRevenue(_, _, _, _, _)
\* getRevenue on node n, drawing from the Math.random() outcomes rnd in
\* order: the value returned, the outcomes left, and the getRevenue calls
\* made, in the order they start, each with its nesting depth and its value
GetRevenue(ch, n, rnd, depth) ==
    IF n \in Leaves
    THEN LET v == LeafRevenue[Head(rnd)]
         IN  [value |-> v, rest |-> Tail(rnd),
              trace |-> <<[node |-> n, depth |-> depth, value |-> v]>>]
    ELSE LET r == ForEachRevenue(ch, ch[n], rnd, depth + 1, 0)
         IN  [value |-> r.value, rest |-> r.rest,
              trace |-> <<[node |-> n, depth |-> depth, value |-> r.value]>> \o r.trace]

RECURSIVE ForEachRevenue_Overwrites(_, _, _, _, _)
\* a loop that keeps the last child's revenue instead of adding it up
ForEachRevenue_Overwrites(ch, kids, rnd, depth, output) ==
    IF kids = <<>> THEN [value |-> output, rest |-> rnd, trace |-> <<>>]
    ELSE LET c == GetRevenue(ch, Head(kids), rnd, depth)
             r == ForEachRevenue_Overwrites(ch, Tail(kids), c.rest, depth, c.value)
         IN  [value |-> r.value, rest |-> r.rest, trace |-> c.trace \o r.trace]

\* this.children.forEach(organ => output += organ.getRevenue())
ForEachRevenue(ch, kids, rnd, depth, output) ==
    IF kids = <<>> THEN [value |-> output, rest |-> rnd, trace |-> <<>>]
    ELSE LET c == GetRevenue(ch, Head(kids), rnd, depth)
             r == ForEachRevenue(ch, Tail(kids), c.rest, depth, output + c.value)
         IN  [value |-> r.value, rest |-> r.rest, trace |-> c.trace \o r.trace]

RECURSIVE Draws(_, _)
RECURSIVE DrawsOf(_, _)
\* how many Math.random() outcomes getRevenue on n consumes
Draws(ch, n) == IF n \in Leaves THEN 1 ELSE DrawsOf(ch, ch[n])

DrawsOf(ch, kids) ==
    IF kids = <<>> THEN 0 ELSE Draws(ch, Head(kids)) + DrawsOf(ch, Tail(kids))

\* an add that every Organ inherits: a leaf gets a children array too
OrganAdd_Inherited(ch, n, organ) ==
    [x \in DOMAIN ch \cup {n} |->
        IF x = n THEN Push(IF n \in DOMAIN ch THEN ch[n] ELSE <<>>, organ) ELSE ch[x]]

\* CompoundOrgan.add / Organ.add: the children arrays afterwards
OrganAdd(ch, n, organ) ==
    IF n \in Compounds THEN [ch EXCEPT ![n] = Push(ch[n], organ)] ELSE ch

\* CompoundOrgan.remove / Organ.remove: the children arrays afterwards
OrganRemove(ch, n, organ) ==
    IF n \in Compounds
    THEN LET index == IndexOf(ch[n], organ)
         IN  [ch EXCEPT ![n] = Splice(ch[n], index, 1)]
    ELSE ch

RECURSIVE SumLenOver(_, _)
\* the lengths of the children arrays of the containers S, added up
SumLenOver(ch, S) ==
    IF S = {} THEN 0
    ELSE LET c == CHOOSE x \in S : TRUE
         IN  Len(ch[c]) + SumLenOver(ch, S \ {c})

SumLen(ch) == SumLenOver(ch, DOMAIN ch)

\* the record of a finished call
Finished(op, n, arg, outcome, value, trace, draws) ==
    [op |-> op, target |-> n, arg |-> arg, outcome |-> outcome,
     value |-> value, trace |-> trace, draws |-> draws, pre |-> children]

NoArg == "none"

\* n.add(organ)
Add(n, organ) ==
    /\ n \in Compounds => Len(children[n]) < MaxChildren
    /\ children' = OrganAdd(children, n, organ)
    /\ result' = Finished("add", n, organ, "return", Undefined, <<>>, <<>>)
    /\ UNCHANGED name
    /\ UNCHANGED outsideTree

\* n.remove(organ)
Remove(n, organ) ==
    /\ children' = OrganRemove(children, n, organ)
    /\ result' = Finished("remove", n, organ, "return", Undefined, <<>>, <<>>)
    /\ UNCHANGED name
    /\ UNCHANGED outsideTree

\* n.getInformation(); on a structure that contains itself the recursion
\* exhausts the call stack
CallGetInformation(n) ==
    /\ result' =
          IF Diverges(children, n)
          THEN Finished("getInformation", n, NoArg, "RangeError", Undefined, <<>>, <<>>)
          ELSE Finished("getInformation", n, NoArg, "return",
                        GetInformation(children, name, n), <<>>, <<>>)
    /\ UNCHANGED <<children, name>>
    /\ UNCHANGED outsideTree

\* n.getRevenue() on a leaf, for one outcome of Math.random()
CallLeafGetRevenue(n) ==
    /\ \E r \in RandomDoubles :
          LET g == GetRevenue(children, n, <<r>>, 0)
          IN  result' = Finished("getRevenue", n, NoArg, "return", g.value, g.trace, <<r>>)
    /\ UNCHANGED <<children, name>>
    /\ UNCHANGED outsideTree

\* n.getRevenue() on a node of a tree, for the outcomes of Math.random()
\* its leaves draw
CallGetRevenue(n) ==
    /\ IF Diverges(children, n)
       THEN result' = Finished("getRevenue", n, NoArg, "RangeError", Undefined, <<>>, <<>>)
       ELSE /\ Draws(children, n) <= MaxDraws
            /\ \E rnd \in [1..Draws(children, n) -> RandomSamples] :
                  LET g == GetRevenue(children, n, rnd, 0)
                  IN  result' = Finished("getRevenue", n, NoArg, "return",
                                         g.value, g.trace, rnd)
    /\ UNCHANGED <<children, name>>
    /\ UNCHANGED outsideTree

InitTree ==
    /\ children = [c \in Compounds |-> <<>>]
    /\ name = NameOf
    /\ result = [op |-> "none", target |-> NoArg, arg |-> NoArg, outcome |-> "return",
                 value |-> Undefined, trace |-> <<>>, draws |-> <<>>,
                 pre |-> [c \in Compounds |-> <<>>]]

(***************************************************************************)
(* Composite: add and remove followed call by call                         *)
(***************************************************************************)
\* the children of all containers together
TotalChildren == SumLen(children)

\* c.add(organ) on a container, the call before it remembered
EditAdd(c, organ) ==
    /\ c \in Compounds
    /\ TotalChildren < MaxEdit
    /\ children' = OrganAdd(children, c, organ)
    /\ result' = Finished("add", c, organ, "return", Undefined, <<>>, <<>>)
    /\ previous' = result
    /\ UNCHANGED name
    /\ UNCHANGED <<proxyVars, configVars, bookVars>>

\* c.remove(organ) on a container, the call before it remembered
EditRemove(c, organ) ==
    /\ c \in Compounds
    /\ children' = OrganRemove(children, c, organ)
    /\ result' = Finished("remove", c, organ, "return", Undefined, <<>>, <<>>)
    /\ previous' = result
    /\ UNCHANGED name
    /\ UNCHANGED <<proxyVars, configVars, bookVars>>

InitEdit == previous = result

NextEdit ==
    \/ \E c \in Compounds, organ \in Nodes : EditAdd(c, organ)
    \/ \E c \in Compounds, organ \in Nodes : EditRemove(c, organ)

(***************************************************************************)
(* Config, the singleton                                                   *)
(***************************************************************************)
\* `null`, the value of Config.instance before the first getInstance; the
\* instances themselves are numbered from 1 in the order they are made
Null == 0

\* the client's variables that hold what getInstance returned
ConfigRefs == {"config", "config2"}

\* the keys and values callers pass to get and set: two loaded keys, a key
\* no file defines, and a name Object.prototype already defines
ConfigKeys == {"app_locale", "db_host", "cache_ttl", "__proto__"}

ConfigValues == {"en", "fa"}

\* loadAllConfigFiles(): the object it returns
LoadAllConfigFiles ==
    [file \in {"app_locale", "db_host", "db_port"} |->
        CASE file = "app_locale" -> "en"
          [] file = "db_host" -> "127.0.0.1"
          [] file = "db_port" -> "3306"]

RECURSIVE CopyFiles(_, _, _)
\* for (const file in files) items[file] = files[file], over the keys left
CopyFiles(items, files, left) ==
    IF left = {} THEN items
    ELSE LET file == CHOOSE f \in left : TRUE
         IN  CopyFiles(ObjSet(items, file, files[file]), files, left \ {file})

\* new Config(): the items of the instance it makes
ConfigConstructor ==
    LET files == LoadAllConfigFiles
    IN  CopyFiles(EmptyObject, files, DOMAIN files)

\* what a finished Config call leaves behind for the properties
ConfigFinished(op, ref, key, value) ==
    [op |-> op, ref |-> ref, key |-> key, value |-> value]

\* ref = Config.getInstance()
GetInstance(ref) ==
    /\ IF configInstance = Null
       THEN /\ configHeap' = Append(configHeap, ConfigConstructor)
            /\ configLoads' = configLoads + 1
            /\ configInstance' = Len(configHeap) + 1
       ELSE UNCHANGED <<configHeap, configLoads, configInstance>>
    /\ configRefs' = [configRefs EXCEPT ![ref] = configInstance']
    /\ configResult' = ConfigFinished("getInstance", ref, NoArg, Undefined)
    /\ UNCHANGED configWritten
    /\ UNCHANGED <<proxyVars, treeVars, editVars, bookVars>>

\* ref.set(key, value)
ConfigSet(ref, key, value) ==
    /\ configRefs[ref] # Null
    /\ configHeap' = [configHeap EXCEPT
                         ![configRefs[ref]] = ObjSet(@, key, value)]
    /\ configWritten' = [k \in DOMAIN configWritten \cup {key} |->
                            IF k = key THEN value ELSE configWritten[k]]
    /\ configResult' = ConfigFinished("set", ref, key, Undefined)
    /\ UNCHANGED <<configInstance, configLoads, configRefs>>
    /\ UNCHANGED <<proxyVars, treeVars, editVars, bookVars>>

\* ref.get(key)
ConfigGet(ref, key) ==
    /\ configRefs[ref] # Null
    /\ configResult' = ConfigFinished("get", ref, key,
                                      ObjGet(configHeap[configRefs[ref]], key))
    /\ UNCHANGED <<configInstance, configHeap, configLoads, configRefs,
                   configWritten>>
    /\ UNCHANGED <<proxyVars, treeVars, editVars, bookVars>>

InitConfig ==
    /\ configInstance = Null
    /\ configHeap = <<>>
    /\ configLoads = 0
    /\ configRefs = [r \in ConfigRefs |-> Null]
    /\ configWritten = <<>>
    /\ configResult = ConfigFinished("none", NoArg, NoArg, Undefined)

NextConfig ==
    \/ \E ref \in ConfigRefs : GetInstance(ref)
    \/ \E ref \in ConfigRefs, key \in ConfigKeys, value \in ConfigValues :
           ConfigSet(ref, key, value)
    \/ \E ref \in ConfigRefs, key \in ConfigKeys : ConfigGet(ref, key)

(***************************************************************************)
(* Book, the prototype                                                     *)
(***************************************************************************)
\* A string is the sequence of the pieces it was put together from, so that
\* `+` is \o.  The constructor's content parameter is <<>> for null (or left
\* out) and <<text>> for a string.
NullContent == <<>>

\* the literal clone appends
CachedSuffix == <<" (cached)">>

\* the titles, prices and contents clients construct books with; the
\* contents include the empty string
Titles == {"Funny JS", "Clean TS"}

Prices == {36, 12}

Contents == {NullContent, << <<>> >>, << <<"Draft">> >>}

\* Book.fetchContentFromDb(): the content it returns
FetchContentFromDb == <<"The book content">>

\* new Book(title, price, content): the object made, and the number of
\* fetchContentFromDb calls it took
BookConstructor(title, price, content) ==
    [title |-> title, price |-> price,
     content |-> IF content # NullContent THEN content[1] ELSE FetchContentFromDb,
     fetched |-> IF content # NullContent THEN 0 ELSE 1]

\* clone() that passes no content on
BookClone_Refetches(b) == BookConstructor(b.title, b.price, NullContent)

\* Book.clone() on the book b
BookClone(b) ==
    LET content == b.content \o CachedSuffix
    IN  BookConstructor(b.title, b.price, <<content>>)

\* Book.getContent()
GetContent(b) == b.content

\* the heap entry of a newly made book; `from` remembers the book it was
\* cloned from (0: made by a client)
Allocated(made, from) ==
    [title |-> made.title, price |-> made.price, content |-> made.content,
     from |-> from]

\* what a finished Book call leaves behind for the properties
BookFinished(op, source, made, value) ==
    [op |-> op, source |-> source, made |-> made, value |-> value,
     pre |-> books, fetchesBefore |-> fetches]

\* new Book(title, price, content) in client code
NewBook(title, price, content) ==
    /\ Len(books) < MaxBooks
    /\ LET made == BookConstructor(title, price, content)
       IN  /\ books' = Append(books, Allocated(made, 0))
           /\ fetches' = fetches + made.fetched
    /\ bookResult' = BookFinished("new", 0, Len(books) + 1, <<>>)
    /\ UNCHANGED <<proxyVars, treeVars, editVars, configVars>>

\* books[i].clone()
CallClone(i) ==
    /\ i \in DOMAIN books
    /\ Len(books) < MaxBooks
    /\ LET made == BookClone(books[i])
       IN  /\ books' = Append(books, Allocated(made, i))
           /\ fetches' = fetches + made.fetched
    /\ bookResult' = BookFinished("clone", i, Len(books) + 1, <<>>)
    /\ UNCHANGED <<proxyVars, treeVars, editVars, configVars>>

\* books[i].getContent()
CallGetContent(i) ==
    /\ i \in DOMAIN books
    /\ bookResult' = BookFinished("getContent", i, 0, GetContent(books[i]))
    /\ UNCHANGED <<books, fetches>>
    /\ UNCHANGED <<proxyVars, treeVars, editVars, configVars>>

InitBook ==
    /\ books = <<>>
    /\ fetches = 0
    /\ bookResult = [op |-> "none", source |-> 0, made |-> 0, value |-> <<>>,
                     pre |-> <<>>, fetchesBefore |-> 0]

NextBook ==
    \/ \E title \in Titles, price \in Prices, content \in Contents :
           NewBook(title, price, content)
    \/ \E i \in 1..MaxBooks : CallClone(i)
    \/ \E i \in 1..MaxBooks : CallGetContent(i)

Init == InitProxy /\ InitTree /\ InitEdit /\ InitConfig /\ InitBook

NextTree ==
    \/ \E n \in Nodes, organ \in Nodes : Add(n, organ)
    \/ \E n \in Nodes, organ \in Nodes : Remove(n, organ)
    \/ \E n \in Nodes : CallGetInformation(n)
    \/ \E n \in Nodes : CallGetRevenue(n)

\* a leaf on its own
NextLeaf == \E n \in Leaves : CallLeafGetRevenue(n)

(***************************************************************************)
(* Specifications: the proxy and the composite are separate programs       *)
(***************************************************************************)
SpecProxy == Init /\ [][NextProxy]_vars

SpecTree == Init /\ [][NextTree]_vars

SpecLeaf == Init /\ [][NextLeaf]_vars

SpecEdit == Init /\ [][NextEdit]_vars

SpecConfig == Init /\ [][NextConfig]_vars

SpecBook == Init /\ [][NextBook]_vars

(***************************************************************************)
(* Proxy: properties                                                       *)
(***************************************************************************)
\* the calls made on instance p, in order
CallsOn(p) == SelectSeq(calls, LAMBDA c : c.proxy = p)

\* the lines instance p printed, in order
LinesBy(p) ==
    LET mine == SelectSeq(console, LAMBDA e : e.by = p)
    IN  [i \in 1..Len(mine) |-> mine[i].line]

\* how often the real downloader of instance p was invoked with k
TimesDownloaded(p, k) ==
    Cardinality({i \in DOMAIN downloaderCalls :
                    downloaderCalls[i] = [proxy |-> p, path |-> k]})

\* C1: for every proxy instance and every key k, FileDownloader.download is
\* invoked with k at most once, and no download(k) after the first invokes it.
C1_AtMostOncePerKey ==
    /\ \A p \in Proxies, k \in Keys : TimesDownloaded(p, k) <= 1
    /\ \A i, j \in DOMAIN calls :
          (i < j /\ calls[i].proxy = calls[j].proxy /\ calls[i].path = calls[j].path)
             => calls[j].invoked = <<>>

\* C2: a download(key) whose key is not yet in cachedFiles invokes the real
\* downloader with key, stores its result under key (though it is undefined)
\* and returns that result.
C2_MissInvokesStoresReturns ==
    \A i \in DOMAIN calls :
       LET c == calls[i]
       IN  ~HasOwn(c.pre, c.path) =>
              /\ c.outcome = "return"
              /\ c.invoked = <<c.path>>
              /\ HasOwn(c.post, c.path)
              /\ c.post[c.path] = FileDownloaderDownload(c.path).result
              /\ c.value = FileDownloaderDownload(c.path).result

\* C3: a download(key) whose key is in cachedFiles returns the stored value,
\* prints 'Read <key> from cache', does not invoke the real downloader and
\* leaves the cache unchanged.
C3_HitReturnsStored ==
    \A i \in DOMAIN calls :
       LET c == calls[i]
       IN  HasOwn(c.pre, c.path) =>
              /\ c.outcome = "return"
              /\ c.value = c.pre[c.path]
              /\ c.log = << <<"Read ", c.path, " from cache">> >>
              /\ c.invoked = <<>>
              /\ c.post = c.pre

\* C4: a key becomes cached on the first download of it, and a cached key
\* never becomes uncached nor has its value replaced by any later download.
C4_CachedOnFirstAndTerminal ==
    \A i \in DOMAIN calls :
       LET c == calls[i]
       IN  /\ HasOwn(c.post, c.path)
           /\ \A k \in DOMAIN c.pre : HasOwn(c.post, k) /\ c.post[k] = c.pre[k]

\* C5: on a fresh proxy, download(k1) then download(k2) with k1 # k2 invokes
\* the real downloader once per key and leaves two independent entries, the
\* one of k1 unchanged by the download of k2.
C5_TwoKeysTwoEntries ==
    \A p \in Proxies :
       LET mine == CallsOn(p)
       IN  (Len(mine) = 2 /\ mine[1].path # mine[2].path) =>
              /\ mine[1].invoked = <<mine[1].path>>
              /\ mine[2].invoked = <<mine[2].path>>
              /\ DOMAIN cachedFiles[p] = {mine[1].path, mine[2].path}
              /\ cachedFiles[p][mine[1].path] = mine[1].post[mine[1].path]

\* the five lines the client's comment lists (lines 88-93)
ClientLog ==
    << <<"Downloading ", PathToFile, "...">>,
       <<"Read ", PathToFile, " from cache">>,
       <<"Read ", PathToFile, " from cache">>,
       <<"Read ", PathToFile, " from cache">>,
       <<"Read ", PathToFile, " from cache">> >>

RECURSIVE SumOf(_)
\* the sum of the numbers of a sequence
SumOf(xs) == IF xs = <<>> THEN 0 ELSE Head(xs) + SumOf(Tail(xs))

\* the last call was op, and it returned
Returned(op) == result.op = op /\ result.outcome = "return"

\* the getRevenue calls the last call made on its direct children
ChildCalls == SelectSeq(result.trace, LAMBDA c : c.depth = 1)

\* the getRevenue calls the last call made on leaves
LeafCalls == SelectSeq(result.trace, LAMBDA c : c.node \in Leaves)

\* C7: one getRevenue() on a container calls getRevenue once on each child
\* occurrence, in child order, and returns the sum of what those calls
\* return (0 for no children), which is the sum of the leaf revenues drawn
\* in the subtree; two leaves that draw 5000 and 6000 give 11000.
C7_RevenueIsSumOfChildren ==
    (Returned("getRevenue") /\ result.target \in Compounds) =>
        /\ [i \in 1..Len(ChildCalls) |-> ChildCalls[i].node] = children[result.target]
        /\ result.value = SumOf([i \in 1..Len(ChildCalls) |-> ChildCalls[i].value])
        /\ result.value = SumOf([i \in 1..Len(LeafCalls) |-> LeafCalls[i].value])
        /\ children[result.target] = <<>> => result.value = 0
        /\ (/\ Len(children[result.target]) = 2
            /\ Range(children[result.target]) \subseteq Leaves
            /\ result.draws = <<Double04, Double05>>) => result.value = 5000 + 6000

\* a container that holds a leaf and a container with a leaf returned 11000
C7_Witness ==
    /\ Returned("getRevenue")
    /\ result.target = "main"
    /\ Len(children["main"]) = 2
    /\ "officers" \in Range(children["main"])
    /\ children["officers"] # <<>>
    /\ result.value = 11000

\* C8: every getRevenue() of a leaf returns an integer from 1000 to 10999,
\* whatever double in [0, 1) Math.random() gives.
C8_LeafRevenueInRange ==
    (Returned("getRevenue") /\ result.target \in Leaves) =>
        result.value \in 1000..10999

\* the largest double below 1 was drawn and the leaf returned 10999
C8_Witness ==
    /\ Returned("getRevenue")
    /\ result.target \in Leaves
    /\ result.draws = <<Ones(SignificandBits)>>
    /\ result.value = 10999

RECURSIVE PreOrder(_, _)
RECURSIVE PreOrderAll(_, _)
\* the node occurrences at and below n, depth first, a node before its
\* children, the children in array order
PreOrder(ch, n) ==
    IF n \in Leaves THEN <<n>> ELSE <<n>> \o PreOrderAll(ch, ch[n])

PreOrderAll(ch, kids) ==
    IF kids = <<>> THEN <<>>
    ELSE PreOrder(ch, Head(kids)) \o PreOrderAll(ch, Tail(kids))

\* the line that identifies node n: a leaf's name, or a container's name
\* with the number of its direct children
LineOf(ch, nm, n) ==
    IF n \in Leaves
    THEN <<"- My name is ", nm[n]>>
    ELSE <<"- This is ", nm[n], " organ.", " It contains ", Len(ch[n]), " members ">>

RECURSIVE Concat(_)
\* the concatenation of a sequence of sequences
Concat(xs) == IF xs = <<>> THEN <<>> ELSE Head(xs) \o Concat(Tail(xs))

\* C9: on an acyclic tree, getInformation() of a container is a header line
\* with the container's name and the number of its direct children, then
\* the getInformation() outputs of its children in insertion order: the
\* lines of the nodes in depth-first pre-order.
C9_InformationIsPreOrder ==
    (Returned("getInformation") /\ result.target \in Compounds) =>
        LET t    == result.target
            kids == children[t]
            walk == PreOrder(children, t)
        IN  /\ Head(result.value) = LineOf(children, name, t)
            /\ Head(result.value)[2] = name[t]
            /\ Head(result.value)[5] = Len(kids)
            /\ Tail(result.value) =
                  Concat([i \in 1..Len(kids) |-> GetInformation(children, name, kids[i])])
            /\ result.value = [i \in 1..Len(walk) |-> LineOf(children, name, walk[i])]

\* a container with more descendants than direct children was described
C9_Witness ==
    /\ Returned("getInformation")
    /\ result.target = "main"
    /\ children["main"] = <<"ceo", "officers">>
    /\ children["officers"] = <<"cto", "ceo">>
    /\ Len(result.value) = 5

RECURSIVE Occurrences(_, _)
RECURSIVE OccurrencesAll(_, _)
\* the number of node occurrences at and below n
Occurrences(ch, n) == IF n \in Leaves THEN 1 ELSE 1 + OccurrencesAll(ch, ch[n])

OccurrencesAll(ch, kids) ==
    IF kids = <<>> THEN 0
    ELSE Occurrences(ch, Head(kids)) + OccurrencesAll(ch, Tail(kids))

\* C10: the getInformation() output of a container has 1 line plus the lines
\* of each child's output; a leaf's output has exactly one line; so the
\* output has as many lines as the subtree has node occurrences.
C10_LineCount ==
    Returned("getInformation") =>
        LET t == result.target
        IN  /\ t \in Leaves => Len(result.value) = 1
            /\ t \in Compounds =>
                  Len(result.value) =
                     1 + SumOf([i \in 1..Len(children[t]) |->
                                  Len(GetInformation(children, name, children[t][i]))])
            /\ Len(result.value) = Occurrences(children, t)

\* a container that holds the same container twice was described in 7 lines
C10_Witness ==
    /\ Returned("getInformation")
    /\ result.target = "main"
    /\ children["main"] = <<"officers", "officers">>
    /\ Len(children["officers"]) = 2
    /\ Len(result.value) = 7

\* C11: remove(x) on a container whose children do not include x leaves the
\* children as they were (same elements, order and length) and raises no
\* error, the empty array included.
C11_RemoveAbsentIsNoOp ==
    (/\ result.op = "remove"
     /\ result.target \in Compounds
     /\ result.arg \notin Range(result.pre[result.target])) =>
        /\ result.outcome = "return"
        /\ children = result.pre

\* C13: add and remove on a leaf are no-ops for every argument: no error,
\* no children gained, the name unchanged, and getInformation() still the
\* single identification line.
C13_LeafAddRemoveAreNoOps ==
    (result.op \in {"add", "remove"} /\ result.target \in Leaves) =>
        /\ result.outcome = "return"
        /\ children = result.pre
        /\ DOMAIN children = Compounds
        /\ name = NameOf
        /\ GetInformation(children, name, result.target)
              = << <<"- My name is ", NameOf[result.target]>> >>

\* a container was added to a leaf while the tree had children elsewhere
C13_Witness ==
    /\ result.op = "add"
    /\ result.target \in Leaves
    /\ result.arg \in Compounds
    /\ children["main"] # <<>>

RECURSIVE Within(_, _, _)
\* the nodes reached from the nodes S in 1 to k steps down
Within(ch, S, k) ==
    IF k = 0 THEN {}
    ELSE LET T == UNION {Range(ch[c]) : c \in S \cap Compounds}
         IN  T \cup Within(ch, T, k - 1)

\* the structure at and below n is a finite acyclic tree: no node at or
\* below n is below itself
WellFormed(ch, n) ==
    \A c \in {n} \cup Within(ch, {n}, Cardinality(Nodes)) :
        c \notin Within(ch, {c}, Cardinality(Nodes))

\* C14: getInformation, getRevenue, add and remove end without an error on
\* every finite acyclic tree, whatever add/remove calls built it.
C14_TotalOnWellFormedTrees ==
    (result.op # "none" /\ WellFormed(result.pre, result.target)) =>
        result.outcome = "return"

\* getRevenue returned on a well-formed subtree of a structure that is
\* cyclic elsewhere
C14_Witness ==
    /\ Returned("getRevenue")
    /\ result.target = "officers"
    /\ children["officers"] # <<>>
    /\ "main" \in Range(children["main"])

(***************************************************************************)
(* Composite: add followed by remove, and what each does to the array       *)
(***************************************************************************)
\* remove(x) directly after add(x) on the same container
RemoveAfterAdd ==
    /\ result.op = "remove" /\ previous.op = "add"
    /\ result.target \in Compounds
    /\ result.target = previous.target /\ result.arg = previous.arg

\* the sequence S without its first x
RemoveFirst(S, x) ==
    LET i == CHOOSE k \in DOMAIN S : S[k] = x /\ \A j \in 1..(k - 1) : S[j] # x
    IN  SubSeq(S, 1, i - 1) \o SubSeq(S, i + 1, Len(S))

\* C12: for any container with any child sequence S (duplicates allowed, S
\* may already contain x) and any node x, add(x) immediately followed by
\* remove(x) leaves the child sequence equal to S.
C12_AddThenRemoveRestores ==
    RemoveAfterAdd => children = previous.pre

\* C12 as the code has it: add(x) then remove(x) leaves S when S does not
\* contain x; when S contains x, the first x of S is the one removed and the
\* added x stays at the end, which is S again only when everything in S
\* from its first x on is x.
C12_AddThenRemoveDropsFirst ==
    RemoveAfterAdd =>
        LET t == result.target
            x == result.arg
            S == previous.pre[t]
        IN  /\ \A c \in Compounds \ {t} : children[c] = previous.pre[c]
            /\ x \notin Range(S) => children[t] = S
            /\ x \in Range(S) =>
                  /\ children[t] = RemoveFirst(S, x) \o <<x>>
                  /\ children[t] = S <=>
                        \A i, j \in DOMAIN S : (S[i] = x /\ i < j) => S[j] = x

\* add(x) then remove(x) on a container that held x before another node
C12_Witness ==
    /\ RemoveAfterAdd
    /\ result.arg = "ceo"
    /\ previous.pre[result.target] = <<"ceo", "cto">>
    /\ children[result.target] = <<"cto", "ceo">>

\* C17: add(x) appends x at the end and leaves the existing children and
\* their order as they were; remove(x) with x present removes exactly one
\* element, the first x, and leaves every other child, later duplicates of
\* x included, in its relative order.
C17_AddAppendsRemoveDropsFirst ==
    LET t    == result.target
        x    == result.arg
        S    == result.pre[t]
        now  == children[t]
    IN  /\ (result.op = "add" /\ t \in Compounds) =>
              /\ Len(now) = Len(S) + 1
              /\ now[Len(now)] = x
              /\ \A i \in DOMAIN S : now[i] = S[i]
              /\ \A c \in Compounds \ {t} : children[c] = result.pre[c]
        /\ (result.op = "remove" /\ t \in Compounds /\ x \in Range(S)) =>
              /\ Len(now) = Len(S) - 1
              /\ \E i \in DOMAIN S :
                    /\ S[i] = x
                    /\ \A j \in 1..(i - 1) : S[j] # x /\ now[j] = S[j]
                    /\ \A j \in (i + 1)..Len(S) : now[j - 1] = S[j]
              /\ \A c \in Compounds \ {t} : children[c] = result.pre[c]

\* a remove(x) from an array that holds x, another node, and x again
C17_Witness ==
    /\ result.op = "remove" /\ result.arg = "ceo"
    /\ result.target \in Compounds
    /\ result.pre[result.target] = <<"ceo", "cto", "ceo">>
    /\ children[result.target] = <<"cto", "ceo">>

(***************************************************************************)
(* Proxy instances side by side                                            *)
(***************************************************************************)
\* the cache of the instance of call i as the call before it on that
\* instance left it
CacheLeftBefore(i) ==
    LET mine == {j \in 1..(i - 1) : calls[j].proxy = calls[i].proxy}
    IN  IF mine = {} THEN EmptyObject
        ELSE calls[CHOOSE j \in mine : \A k \in mine : k <= j].post

\* C15: two FileDownloaderProxy instances never share cache state: a
\* download(k) on one instance does not make k a cache hit on another, so
\* the underlying download runs once per key per instance.
C15_InstancesDownloadOncePerKey ==
    /\ \A i \in DOMAIN calls : calls[i].pre = CacheLeftBefore(i)
    /\ \A i \in DOMAIN calls :
          HasOwn(calls[i].pre, calls[i].path) =>
             \E j \in 1..(i - 1) : /\ calls[j].proxy = calls[i].proxy
                                   /\ calls[j].path = calls[i].path
    /\ \A p \in Proxies, k \in Keys :
          (\E i \in DOMAIN calls : calls[i].proxy = p /\ calls[i].path = k)
             => TimesDownloaded(p, k) = 1

(***************************************************************************)
(* Config                                                                  *)
(***************************************************************************)
\* C16: across any sequence of getInstance, get and set calls at most one
\* Config is ever constructed (loadAllConfigFiles runs at most once), every
\* getInstance returns that instance, and a value written with set through
\* one reference is the value get reads through any other reference.
C16_OneInstanceSharedValues ==
    /\ Len(configHeap) <= 1
    /\ configLoads <= 1
    /\ \A r \in ConfigRefs : configRefs[r] \in {Null, configInstance}
    /\ configResult.op = "getInstance" =>
          configRefs[configResult.ref] = configInstance /\ configInstance # Null
    /\ (configResult.op = "get" /\ configResult.key \in DOMAIN configWritten) =>
          configResult.value = configWritten[configResult.key]

(***************************************************************************)
(* Book                                                                    *)
(***************************************************************************)
\* C18: clone() returns a new Book with the same title and price whose
\* content is the original's content followed by ' (cached)'; cloning never
\* calls fetchContentFromDb and leaves the original's content unchanged, so
\* a clone of a clone carries the suffix twice.
C18_CloneCopiesAndAppendsCached ==
    /\ bookResult.op = "clone" =>
          LET pre  == bookResult.pre
              src  == pre[bookResult.source]
              made == books[bookResult.made]
          IN  /\ bookResult.made = Len(pre) + 1
              /\ Len(books) = Len(pre) + 1
              /\ \A i \in DOMAIN pre : books[i] = pre[i]
              /\ made.title = src.title
              /\ made.price = src.price
              /\ made.content = src.content \o CachedSuffix
              /\ fetches = bookResult.fetchesBefore
    /\ \A i \in DOMAIN books :
          LET b == books[i]
          IN  (b.from # 0 /\ books[b.from].from # 0) =>
                 b.content = books[books[b.from].from].content
                                \o CachedSuffix \o CachedSuffix

\* a clone of a clone of a book whose content was fetched, just made
C18_Witness ==
    /\ bookResult.op = "clone"
    /\ fetches = 1
    /\ books[bookResult.source].from # 0
    /\ books[bookResult.made].content =
          <<"The book content", " (cached)", " (cached)">>

====
